---- MODULE Spec2Model ----
(***************************************************************************)
(* Model of fastapi_crudrouter.core: the pagination dependency of          *)
(* _utils.py and the six routes of SQLAlchemyCRUDRouter (sqlalchemy.py).   *)
(*                                                                         *)
(* The table behind db_model has the columns id (primary key, generated   *)
(* by the storage when the inserted row carries none), name (UNIQUE) and   *)
(* val.  Every request runs on a session of its own (Depends(db_func)).    *)
(***************************************************************************)
EXTENDS Integers, Sequences, FiniteSets, TLC

VARIABLES
    store,      \* the committed rows of the table
    max_limit,  \* the paginate argument the router was built with
    db_kind,    \* the kind of session db_func yields: "sync" or "async"
    request,    \* the request being served, op = "none" between requests
    trace,      \* the session calls and assignments the route has issued
    response,   \* what the route handed to its caller
    session,    \* the request's session as the route left it
    schema_cls,     \* the schema the router is built from
    pk_field_name,  \* the name of its primary-key field
    create_schema,  \* the schema schema_factory derived, None before
    procs           \* two requests served step by step, each on its session

vars == <<store, max_limit, db_kind, request, trace, response, session,
          schema_cls, pk_field_name, create_schema, procs>>

\* the variables of the router's construction
built == <<max_limit, db_kind, schema_cls, pk_field_name, create_schema>>

----
(* Bounds of the model *)
MaxKey == 2
MaxName == 3
MaxVal == 1
MaxPage == 2

AllNames == <<"a", "b", "c", "d", "e", "f">>
Keys == 1..MaxKey
Names == {AllNames[i] : i \in 1..MaxName}
Vals == 0..MaxVal
PageInts == (-1)..MaxPage
Kinds == {"sync", "async"}

----
(* Optional[T]: None is the empty tuple, a present value x is <<x>> *)
None == <<>>
Some(x) == <<x>>
Optional(S) == {None} \cup {Some(x) : x \in S}

(* Python truthiness of an Optional[int]: None and 0 are falsy *)
Truthy(o) == o # None /\ o[1] # 0

Min(a, b) == IF a <= b THEN a ELSE b
Max(a, b) == IF a >= b THEN a ELSE b

----
(* Rows of the table and the columns of db_model *)
Columns == {"id", "name", "val"}
Rows == [id : Keys, name : Names, val : Vals]
PKs(st) == {r.id : r \in st}
RowOf(st, k) == CHOOSE r \in st : r.id = k

(* The table's constraints: the primary key and name are unique *)
WellFormed(st) ==
    /\ st \subseteq Rows
    /\ \A r1, r2 \in st : (r1.id = r2.id \/ r1.name = r2.name) => r1 = r2

----
(* HTTP outcomes *)
HTTPException(status_code, detail) ==
    [status_code |-> status_code, detail |-> detail, rows |-> <<>>]

NOT_FOUND == HTTPException(404, "Item not found")

Returned(rows) == [status_code |-> 200, detail |-> "", rows |-> rows]

(* An exception no route catches, as it leaves the route *)
Unhandled(exc) == [status_code |-> 500, detail |-> exc, rows |-> <<>>]

create_query_validation_exception(field, msg) ==
    HTTPException(422,
        [detail |-> <<[loc |-> <<"query", field>>, msg |-> msg,
                      type |-> "type_error.integer"]>>])

----
(* _utils.pagination_factory(max_limit).pagination(skip, limit):           *)
(* q_skip and q_limit are the raw query parameters, None when not given.   *)
(* The result is [raised, exc] or [raised, value].                         *)
pagination(mx, q_skip, q_limit) ==
    LET skip == IF q_skip = None THEN 0 ELSE q_skip[1]
        limit == IF q_limit = None THEN mx ELSE q_limit
    IN  IF skip < 0
        THEN [raised |-> TRUE,
              exc |-> create_query_validation_exception("skip",
                  <<"skip query parameter must be greater or equal to zero">>)]
        ELSE IF limit # None /\ limit[1] <= 0
        THEN [raised |-> TRUE,
              exc |-> create_query_validation_exception("limit",
                  <<"limit query parameter must be greater than zero">>)]
        ELSE IF limit # None /\ Truthy(mx) /\ mx[1] < limit[1]
        THEN [raised |-> TRUE,
              exc |-> create_query_validation_exception("limit",
                  <<"limit query parameter must be less than", mx[1]>>)]
        ELSE [raised |-> FALSE, value |-> [skip |-> skip, limit |-> limit]]

----
(* The session of one request.  uow holds the writes of the session's     *)
(* transaction that are not committed; state is "idle" (no open write),    *)
(* "dirty" (uncommitted writes) or "failed" (a flush raised; the session   *)
(* refuses further work until rollback() is called).                       *)
NewSession == [uow |-> <<>>, state |-> "idle"]

add(sess, row) ==
    [uow |-> Append(sess.uow, [w |-> "insert", pk |-> None, row |-> row]),
     state |-> "dirty"]

modify(sess, k, row) ==
    [uow |-> Append(sess.uow, [w |-> "update", pk |-> Some(k), row |-> row]),
     state |-> "dirty"]

delete_nothing(sess, row) == sess

delete_every_row(sess, row) ==
    [uow |-> Append(sess.uow, [w |-> "delete_all", pk |-> None, row |-> <<>>]),
     state |-> "dirty"]

delete(sess, row) ==
    [uow |-> Append(sess.uow, [w |-> "delete", pk |-> Some(row.id), row |-> row]),
     state |-> "dirty"]

bulk_delete(sess) ==
    [uow |-> Append(sess.uow, [w |-> "delete_all", pk |-> None, row |-> <<>>]),
     state |-> "dirty"]

rollback(sess) == [uow |-> <<>>, state |-> "idle"]

(* The row an INSERT stores: the storage generates the key gen when the    *)
(* object carries none.                                                    *)
Inserted(row, gen) ==
    [c \in Columns |-> IF c = "id" /\ "id" \notin DOMAIN row THEN gen ELSE row[c]]

(* One write applied to the table.  It raises IntegrityError when the     *)
(* result would break the primary key or the UNIQUE constraint, and        *)
(* StaleDataError when an UPDATE finds no row with the object's key.  A    *)
(* DELETE that finds no row only warns, and deletes nothing.               *)
ApplyWrite(st, w, gen) ==
    IF w.w = "insert" THEN
        LET r == Inserted(w.row, gen)
        IN  IF \E x \in st : x.id = r.id \/ x.name = r.name
            THEN [ok |-> FALSE, store |-> st, exc |-> "IntegrityError"]
            ELSE [ok |-> TRUE, store |-> st \cup {r}, exc |-> ""]
    ELSE IF w.w = "update" THEN
        LET others == {x \in st : x.id # w.pk[1]}
        IN  IF w.pk[1] \notin PKs(st)
            THEN [ok |-> FALSE, store |-> st, exc |-> "StaleDataError"]
            ELSE IF \E x \in others : x.name = w.row.name \/ x.id = w.row.id
            THEN [ok |-> FALSE, store |-> st, exc |-> "IntegrityError"]
            ELSE [ok |-> TRUE, store |-> others \cup {w.row}, exc |-> ""]
    ELSE IF w.w = "delete" THEN
        [ok |-> TRUE, store |-> {x \in st : x.id # w.pk[1]}, exc |-> ""]
    ELSE [ok |-> TRUE, store |-> {}, exc |-> ""]

RECURSIVE Flush(_, _, _)
Flush(st, uow, gen) ==
    IF uow = <<>> THEN [ok |-> TRUE, store |-> st, exc |-> ""]
    ELSE LET a == ApplyWrite(st, Head(uow), gen)
         IN  IF a.ok THEN Flush(a.store, Tail(uow), gen)
             ELSE [ok |-> FALSE, store |-> st, exc |-> a.exc]

(* Session.commit(): flushes the unit of work and commits it; when the     *)
(* flush raises, nothing is stored and the session is left in its failed   *)
(* transaction.                                                            *)
commit(st, sess, gen) ==
    LET f == Flush(st, sess.uow, gen)
    IN  IF f.ok
        THEN [raised |-> FALSE, exc |-> "", store |-> f.store,
              sess |-> NewSession]
        ELSE [raised |-> TRUE, exc |-> f.exc, store |-> st,
              sess |-> [uow |-> sess.uow, state |-> "failed"]]

commit_raising_applied(st, sess, exc) ==
    [raised |-> TRUE, exc |-> exc, store |-> Flush(st, sess.uow, 1).store,
     sess |-> [uow |-> sess.uow, state |-> "failed"]]

(* Session.commit() failing with the exception exc for a reason of the     *)
(* storage (a lost connection, a constraint of another table): nothing is  *)
(* stored.                                                                 *)
commit_raising(st, sess, exc) ==
    [raised |-> TRUE, exc |-> exc, store |-> st,
     sess |-> [uow |-> sess.uow, state |-> "failed"]]

(* Session.refresh(obj): reloads the object's row by its primary key *)
refresh(st, k) == RowOf(st, k)

----
(* Query building blocks of _get_all *)
RECURSIVE order_by(_)
order_by(rows) ==
    IF rows = {} THEN <<>>
    ELSE LET m == CHOOSE r \in rows : \A x \in rows : r.id <= x.id
         IN  <<m>> \o order_by(rows \ {m})

offset_one_more(seq, skip) == SubSeq(seq, skip + 2, Len(seq))

offset(seq, skip) == SubSeq(seq, skip + 1, Len(seq))

limit_to(seq, lim) ==
    IF lim = None THEN seq ELSE SubSeq(seq, 1, Min(lim[1], Len(seq)))

(* The name of the session call a read is issued through *)
QueryCall(kind) == IF kind = "async" THEN "execute" ELSE "query"

Outcome(st, tr, resp, sess) ==
    [store |-> st, trace |-> tr, response |-> resp, session |-> sess]

----
(* SQLAlchemyCRUDRouter._get_all.route *)
get_all_route(st, kind, pag) ==
    LET skip == pag.skip
        lim == pag.limit
    IN  IF kind = "async"
        THEN Outcome(st, <<"execute">>,
                     Returned(limit_to(offset(order_by(st), skip), lim)),
                     NewSession)
        ELSE Outcome(st, <<"query">>,
                     Returned(limit_to(offset(order_by(st), skip), lim)),
                     NewSession)

get_one_route_any(st, kind, item_id) ==
    IF st # {}
    THEN Outcome(st, <<QueryCall(kind)>>,
                 Returned(<<CHOOSE r \in st : \A x \in st : r.id <= x.id>>),
                 NewSession)
    ELSE Outcome(st, <<QueryCall(kind)>>, NOT_FOUND, NewSession)

(* SQLAlchemyCRUDRouter._get_one.route *)
get_one_route(st, kind, item_id) ==
    LET found == IF kind = "async"
                 THEN {r \in st : r.id = item_id}
                 ELSE {r \in st : r.id = item_id}
    IN  IF found # {}
        THEN Outcome(st, <<QueryCall(kind)>>,
                     Returned(<<CHOOSE r \in found : TRUE>>), NewSession)
        ELSE Outcome(st, <<QueryCall(kind)>>, NOT_FOUND, NewSession)

create_route_no_commit(st, kind, model, gen) ==
    LET s1 == add(NewSession, model)
        c == commit(st, s1, gen)
    IN  IF ~c.raised
        THEN Outcome(st, <<"add">>, Returned(<<Inserted(model, gen)>>), s1)
        ELSE Outcome(c.store, <<"add", "commit", "rollback">>,
                     HTTPException(422, "Key already exists"),
                     rollback(c.sess))

create_route_no_rollback(st, kind, model, gen) ==
    LET s1 == add(NewSession, model)
        c == commit(st, s1, gen)
    IN  IF ~c.raised
        THEN Outcome(c.store, <<"add", "commit", "refresh">>,
                     Returned(<<refresh(c.store, Inserted(model, gen).id)>>),
                     c.sess)
        ELSE Outcome(c.store, <<"add", "commit">>,
                     HTTPException(422, "Key already exists"), c.sess)

create_finish_refresh_first(model, gen, c) ==
    IF ~c.raised
    THEN Outcome(c.store, <<"add", "refresh", "commit">>,
                 Returned(<<refresh(c.store, Inserted(model, gen).id)>>),
                 c.sess)
    ELSE IF c.exc = "IntegrityError"
    THEN Outcome(c.store, <<"add", "refresh", "commit", "rollback">>,
                 HTTPException(422, "Key already exists"), rollback(c.sess))
    ELSE Outcome(c.store, <<"add", "refresh", "commit">>, Unhandled(c.exc),
                 c.sess)

(* The create route from the result c of its commit on: refresh and       *)
(* return, or the handler of IntegrityError; any other exception leaves    *)
(* the route as it is.                                                     *)
create_finish(model, gen, c) ==
    LET db_model == model
    IN  IF ~c.raised
        THEN Outcome(c.store, <<"add", "commit", "refresh">>,
                     Returned(<<refresh(c.store, Inserted(db_model, gen).id)>>),
                     c.sess)
        ELSE IF c.exc = "IntegrityError"
        THEN Outcome(c.store, <<"add", "commit", "rollback">>,
                     HTTPException(422, "Key already exists"),
                     rollback(c.sess))
        ELSE Outcome(c.store, <<"add", "commit">>, Unhandled(c.exc), c.sess)

(* SQLAlchemyCRUDRouter._create.route; gen is the key the storage          *)
(* generates when the object carries none.                                 *)
create_route(st, kind, model, gen) ==
    create_finish(model, gen, commit(st, add(NewSession, model), gen))

(* CRUDGenerator._raise(e) as the update route uses it *)
_raise(e) == HTTPException(422, "Key already exists")

hasattr(db_model, key) == key \in DOMAIN db_model

model_dump_all(model, pk) == model

(* model.model_dump(exclude={self._pk}) *)
model_dump_exclude(model, pk) ==
    [k \in DOMAIN model \ {pk} |-> model[k]]

Repeat(x, n) == [i \in 1..n |-> x]

patched_overwrite(db_model, dump) ==
    [c \in DOMAIN db_model |->
        IF c \in DOMAIN dump THEN dump[c]
        ELSE IF c = "val" THEN 0 ELSE db_model[c]]

(* The fetched object after the loop of setattr calls *)
patched(db_model, dump) ==
    [c \in DOMAIN db_model |->
        IF c \in DOMAIN dump /\ hasattr(db_model, c) THEN dump[c]
        ELSE db_model[c]]

update_route_no_rollback(st, kind, item_id, model) ==
    LET g == get_one_route(st, kind, item_id)
    IN  IF g.response.status_code # 200
        THEN Outcome(g.store, g.trace \o <<"commit">>, g.response, g.session)
        ELSE
        LET db_model == g.response.rows[1]
            dump == model_dump_exclude(model, "id")
            assigned == {k \in DOMAIN dump : hasattr(db_model, k)}
            new == patched(db_model, dump)
            s1 == IF assigned = {} THEN g.session
                  ELSE modify(g.session, item_id, new)
            tr1 == g.trace \o Repeat("setattr", Cardinality(assigned))
            c == commit(st, s1, 0)
        IN  IF ~c.raised
            THEN Outcome(c.store, tr1 \o <<"commit", "refresh">>,
                         Returned(<<refresh(c.store, item_id)>>), c.sess)
            ELSE Outcome(c.store, tr1 \o <<"commit">>,
                         _raise("IntegrityError"), c.sess)

(* The update route after its lookup g found the record: the object, the  *)
(* session and the trace once the loop of setattr calls is done.           *)
update_pending(g, item_id, model) ==
    LET db_model == g.response.rows[1]
        dump == model_dump_exclude(model, "id")
        assigned == {k \in DOMAIN dump : hasattr(db_model, k)}
        new == patched(db_model, dump)
    IN  [db_model |-> new,
         session |-> IF assigned = {} THEN g.session
                     ELSE modify(g.session, item_id, new),
         trace |-> g.trace \o Repeat("setattr", Cardinality(assigned))]

(* The update route from the result c of its commit on.  refresh raises    *)
(* InvalidRequestError when the object's row is gone.                      *)
update_finish(g, item_id, model, c) ==
    LET u == update_pending(g, item_id, model)
    IN  IF ~c.raised
        THEN IF u.db_model.id \in PKs(c.store)
             THEN Outcome(c.store, u.trace \o <<"commit", "refresh">>,
                          Returned(<<refresh(c.store, u.db_model.id)>>), c.sess)
             ELSE Outcome(c.store, u.trace \o <<"commit", "refresh">>,
                          Unhandled("InvalidRequestError"), c.sess)
        ELSE IF c.exc = "IntegrityError"
        THEN Outcome(c.store, u.trace \o <<"commit", "rollback">>,
                     _raise("IntegrityError"), rollback(c.sess))
        ELSE Outcome(c.store, u.trace \o <<"commit">>, Unhandled(c.exc), c.sess)

(* SQLAlchemyCRUDRouter._update.route *)
update_route(st, kind, item_id, model) ==
    LET g == get_one_route(st, kind, item_id)
    IN  IF g.response.status_code # 200 THEN g
        ELSE update_finish(g, item_id, model,
                 commit(st, update_pending(g, item_id, model).session, 0))

(* What a route returns when it calls the inner `async def route` of       *)
(* _get_all without awaiting it: the coroutine object.  The inner route    *)
(* never runs, so no query is issued and no list of records exists.        *)
NotAwaited == [status_code |-> 200, detail |-> "coroutine", rows |-> <<>>]

(* The delete-all route from the result c of its commit on: the           *)
(* asynchronous branch awaits the inner list route, the synchronous        *)
(* branch returns its call.  No exception of the commit is caught.         *)
delete_all_finish(kind, c) ==
    IF c.raised
    THEN Outcome(c.store, <<QueryCall(kind), "commit">>, Unhandled(c.exc), c.sess)
    ELSE IF kind = "async"
    THEN LET l == get_all_route(c.store, kind, [skip |-> 0, limit |-> None])
         IN  Outcome(l.store, <<"execute", "commit">> \o l.trace,
                     l.response, c.sess)
    ELSE Outcome(c.store, <<"query", "commit">>, NotAwaited, c.sess)

(* SQLAlchemyCRUDRouter._delete_all.route *)
delete_all_route(st, kind) ==
    delete_all_finish(kind, commit(st, bulk_delete(NewSession), 0))

(* The delete-one route from the result c of its commit on; no exception  *)
(* of the commit is caught.                                                *)
delete_one_finish(g, c) ==
    IF ~c.raised
    THEN Outcome(c.store, g.trace \o <<"delete", "commit">>,
                 Returned(<<g.response.rows[1]>>), c.sess)
    ELSE Outcome(c.store, g.trace \o <<"delete", "commit">>,
                 Unhandled(c.exc), c.sess)

(* SQLAlchemyCRUDRouter._delete_one.route *)
delete_one_route(st, kind, item_id) ==
    LET g == get_one_route(st, kind, item_id)
    IN  IF g.response.status_code # 200 THEN g
        ELSE delete_one_finish(g,
                 commit(st, delete(g.session, g.response.rows[1]), 0))

----
(* Schemas: a name and, per field, its annotation and whether it is        *)
(* required (has no default).                                              *)
TableSchema ==
    [name |-> "Schema",
     fields |-> [c \in Columns |->
                   [annotation |-> IF c = "name" THEN "str" ELSE "int",
                    required |-> TRUE]]]

schema_factory_keep_default(schema, pk, name) ==
    [name |-> <<schema.name, name>>,
     fields |-> [f \in DOMAIN schema.fields \ {pk} |-> schema.fields[f]]]

(* _utils.schema_factory: every field but the primary key, each as         *)
(* (annotation, ...), under the name of the schema followed by name.       *)
schema_factory(schema, pk, name) ==
    [name |-> <<schema.name, name>>,
     fields |-> [f \in DOMAIN schema.fields \ {pk} |->
                   [annotation |-> schema.fields[f].annotation,
                    required |-> TRUE]]]

(* The two requests of the step-by-step specification, none elsewhere *)
NoProcs == <<>>

----
(* The requests.  An input is a mapping from the fields of the schema the  *)
(* route was built with to their values.  A request is served as a whole;  *)
(* Release ends it: the response is delivered and the request's session    *)
(* is given back.                                                          *)
Request(op, item_id, model, skip, lim, pag) ==
    [op |-> op, item_id |-> item_id, model |-> model,
     skip |-> skip, limit |-> lim, pagination |-> pag]

NoRequest == Request("none", None, <<>>, None, None, None)

(* The inputs over a set of fields: id carries a key, name a name, val a   *)
(* value; the value of a field the table does not have is never read.      *)
Inputs(fields) ==
    {[f \in fields |-> IF f = "id" THEN t[1]
                       ELSE IF f = "name" THEN t[2]
                       ELSE IF f = "val" THEN t[3] ELSE 0] :
        t \in Keys \X Names \X Vals}

CreateInputs == Inputs({"name", "val"}) \cup Inputs({"id", "name", "val"})

UpdateFields == {"id", "name", "val", "extra"}
UpdateInputs == UNION {Inputs(D) : D \in SUBSET UpdateFields}

Idle == request.op = "none"

Finish(req, o) ==
    /\ request' = req
    /\ store' = o.store
    /\ trace' = o.trace
    /\ response' = o.response
    /\ session' = o.session
    /\ UNCHANGED <<built, procs>>

GetAll ==
    /\ Idle
    /\ \E q_skip \in Optional(PageInts), q_limit \in Optional(PageInts) :
        LET p == pagination(max_limit, q_skip, q_limit)
        IN  IF p.raised
            THEN Finish(Request("get_all", None, <<>>, q_skip, q_limit, None),
                        Outcome(store, <<>>, p.exc, NewSession))
            ELSE Finish(Request("get_all", None, <<>>, q_skip, q_limit,
                                Some(p.value)),
                        get_all_route(store, db_kind, p.value))

GetOne ==
    /\ Idle
    /\ \E item_id \in Keys :
        Finish(Request("get_one", Some(item_id), <<>>, None, None, None),
               get_one_route(store, db_kind, item_id))

Create ==
    /\ Idle
    /\ \E model \in CreateInputs, gen \in Keys :
        /\ "id" \notin DOMAIN model => gen \notin PKs(store)
        /\ "id" \in DOMAIN model => gen = model.id
        /\ Finish(Request("create", None, model, None, None, None),
                  create_route(store, db_kind, model, gen))

Update ==
    /\ Idle
    /\ \E item_id \in Keys, model \in UpdateInputs :
        Finish(Request("update", Some(item_id), model, None, None, None),
               update_route(store, db_kind, item_id, model))

DeleteOne ==
    /\ Idle
    /\ \E item_id \in Keys :
        Finish(Request("delete_one", Some(item_id), <<>>, None, None, None),
               delete_one_route(store, db_kind, item_id))

DeleteAll ==
    /\ Idle
    /\ Finish(Request("delete_all", None, <<>>, None, None, None),
              delete_all_route(store, db_kind))

Release ==
    /\ ~Idle
    /\ request' = NoRequest
    /\ trace' = <<>>
    /\ response' = Returned(<<>>)
    /\ session' = NewSession
    /\ UNCHANGED <<store, built, procs>>

(* No request is being served *)
Quiet ==
    /\ request = NoRequest
    /\ trace = <<>>
    /\ response = Returned(<<>>)
    /\ session = NewSession

Init ==
    /\ store = {}
    /\ max_limit \in Optional(PageInts)
    /\ db_kind \in Kinds
    /\ Quiet
    /\ schema_cls = TableSchema
    /\ pk_field_name = "id"
    /\ create_schema = Some(schema_factory(TableSchema, "id", "Create"))
    /\ procs = NoProcs

Next ==
    \/ GetAll
    \/ GetOne
    \/ Create
    \/ Update
    \/ DeleteOne
    \/ DeleteAll
    \/ Release

Spec == Init /\ [][Next]_vars

TypeOK ==
    /\ WellFormed(store)
    /\ max_limit \in Optional(PageInts)
    /\ db_kind \in Kinds
    /\ response.status_code \in {200, 404, 422, 500}
    /\ session.state \in {"idle", "dirty", "failed"}

----
(* Helpers of the properties *)

(* The validation error of the pagination dependency for one field *)
IsQueryError(resp, field) ==
    /\ resp.status_code = 422
    /\ DOMAIN resp.detail = {"detail"}
    /\ Len(resp.detail.detail) = 1
    /\ DOMAIN resp.detail.detail[1] = {"loc", "msg", "type"}
    /\ resp.detail.detail[1].loc = <<"query", field>>
    /\ resp.detail.detail[1].type = "type_error.integer"

(* skip and limit as the dependency sees them: the defaults filled in *)
EffSkip(req) == IF req.skip = None THEN 0 ELSE req.skip[1]
EffLimit(req) == IF req.limit = None THEN max_limit ELSE req.limit

(* A create input that breaks the primary key or the UNIQUE constraint *)
CreateViolates(st, model) ==
    \E x \in st : \/ x.name = model.name
                  \/ "id" \in DOMAIN model /\ x.id = model.id

(* An update of the row k that breaks the UNIQUE constraint *)
UpdateViolates(st, k, model) ==
    /\ k \in PKs(st)
    /\ "name" \in DOMAIN model
    /\ \E x \in st : x.id # k /\ x.name = model.name

Last(seq) == seq[Len(seq)]
Has(seq, x) == \E i \in 1..Len(seq) : seq[i] = x

----
(* C1: the pagination validator rejects skip < 0 with an error on "skip"   *)
(* (also when limit is invalid), otherwise a given limit <= 0 with an      *)
(* error on "limit", otherwise a limit above a configured max_limit with   *)
(* an error on "limit"; every failure has the documented body shape.       *)
C1_ValidationOrder ==
    request.op = "get_all" =>
        LET skip == EffSkip(request)
            lim == EffLimit(request)
        IN  /\ skip < 0 => IsQueryError(response, "skip")
            /\ (skip >= 0 /\ request.limit # None /\ request.limit[1] <= 0)
                  => IsQueryError(response, "limit")
            /\ (skip >= 0 /\ lim # None /\ lim[1] > 0
                  /\ max_limit # None /\ lim[1] > max_limit[1])
                  => IsQueryError(response, "limit")
            /\ response.status_code # 200
                  => \E f \in {"skip", "limit"} : IsQueryError(response, f)

(* C2: every PaginationRequest the validator returns has skip >= 0, limit  *)
(* absent or > 0, limit <= max_limit for every configured max_limit        *)
(* (0 and negative ones included); a missing limit becomes max_limit, and  *)
(* skip and limit are returned unchanged.                                  *)
C2_AcceptedPagination ==
    (request.op = "get_all" /\ request.pagination # None) =>
        LET p == request.pagination[1]
        IN  /\ p.skip >= 0
            /\ p.limit = None \/ p.limit[1] > 0
            /\ (max_limit # None /\ p.limit # None) => p.limit[1] <= max_limit[1]
            /\ p.skip = EffSkip(request)
            /\ p.limit = EffLimit(request)

(* C3: List returns the stored records in ascending primary-key order,     *)
(* without the first skip of them and with at most limit of them (all the  *)
(* remaining ones when limit is absent), whatever the store holds.         *)
C3_ListWindow ==
    (request.op = "get_all" /\ response.status_code = 200) =>
        LET p == request.pagination[1]
            rows == response.rows
            rest == Max(0, Cardinality(store) - p.skip)
        IN  /\ Len(rows) = (IF p.limit = None THEN rest ELSE Min(p.limit[1], rest))
            /\ \A i \in 1..Len(rows) :
                  /\ rows[i] \in store
                  /\ Cardinality({r \in store : r.id < rows[i].id}) = p.skip + i - 1
            /\ \A i, j \in 1..Len(rows) : i < j => rows[i].id <= rows[j].id

C3_Witness ==
    /\ request.op = "get_all"
    /\ response.status_code = 200
    /\ Cardinality(store) >= 2
    /\ request.pagination[1].skip = 1
    /\ request.pagination[1].limit = Some(1)
    /\ Len(response.rows) = 1

(* C4: Get-one returns the stored record with the requested key when it    *)
(* exists and fails with NotFound (404) exactly when it does not.          *)
C4_GetOne ==
    request.op = "get_one" =>
        LET k == request.item_id[1]
        IN  /\ k \in PKs(store) =>
                /\ response.status_code = 200
                /\ Len(response.rows) = 1
                /\ response.rows[1] \in store
                /\ response.rows[1].id = k
            /\ k \notin PKs(store) =>
                /\ response.status_code = 404
                /\ response = NOT_FOUND

C4_Witness ==
    /\ request.op = "get_one"
    /\ response.status_code = 200
    /\ Cardinality(store) >= 2
    /\ response.rows[1].id = 2

(* C5: after a successful Create with input v the returned record is       *)
(* committed, carries its primary key, and Get-one for that key returns a  *)
(* record whose non-key fields equal v.                                    *)
C5_CreateRoundTrip ==
    (request.op = "create" /\ response.status_code = 200) =>
        LET v == request.model
            r == response.rows[1]
            g == get_one_route(store, db_kind, r.id)
        IN  /\ r \in store
            /\ Has(trace, "commit")
            /\ session.state = "idle"
            /\ r.id \in Keys
            /\ "id" \in DOMAIN v => r.id = v.id
            /\ g.response.status_code = 200
            /\ g.response.rows[1].name = v.name
            /\ g.response.rows[1].val = v.val
            /\ g.response.rows[1] = r

C5_Witness ==
    /\ request.op = "create"
    /\ response.status_code = 200
    /\ "id" \notin DOMAIN request.model
    /\ request.model.val = 1
    /\ Cardinality(store) >= 2

(* C6: a Create that hits a uniqueness violation rolls back, then fails    *)
(* with 422 "Key already exists", and leaves the store as it was.          *)
C6_CreateConflict ==
    [][(request'.op = "create" /\ CreateViolates(store, request'.model)) =>
          /\ response' = HTTPException(422, "Key already exists")
          /\ store' = store
          /\ trace' = <<"add", "commit", "rollback">>
          /\ session'.state = "idle"
          /\ session'.uow = <<>>]_vars

C6_Witness ==
    /\ request.op = "create"
    /\ response.status_code = 422
    /\ Last(trace) = "rollback"
    /\ store # {}

(* C7: an Update that hits a uniqueness violation rolls back and then      *)
(* fails with 422 "Key already exists", the outcome of a conflicting       *)
(* Create.                                                                 *)
C7_UpdateConflict ==
    [][(request'.op = "update"
          /\ UpdateViolates(store, request'.item_id[1], request'.model)) =>
          /\ response' = HTTPException(422, "Key already exists")
          /\ response' = create_route(store, db_kind,
                 [name |-> request'.model.name, val |-> 0], 0).response
          /\ Len(trace') >= 2
          /\ SubSeq(trace', Len(trace') - 1, Len(trace')) = <<"commit", "rollback">>
          /\ session'.state = "idle"
          /\ store' = store]_vars

C7_Witness ==
    /\ request.op = "update"
    /\ response.status_code = 422
    /\ Last(trace) = "rollback"
    /\ Cardinality(store) >= 2

(* C8: Update for a key that is not stored fails with the NotFound of      *)
(* Get-one before any assignment, commit, rollback or refresh, and leaves  *)
(* the store unchanged.                                                    *)
C8_UpdateMissing ==
    [][(request'.op = "update" /\ request'.item_id[1] \notin PKs(store)) =>
          /\ response' = get_one_route(store, db_kind, request'.item_id[1]).response
          /\ response'.status_code = 404
          /\ trace' = <<QueryCall(db_kind)>>
          /\ session' = NewSession
          /\ store' = store]_vars

C8_Witness ==
    /\ request.op = "update"
    /\ response.status_code = 404
    /\ request.model # <<>>
    /\ store # {}

(* C9 as stated: a successful Update sets every field of the input that    *)
(* exists on the record to the input's value and leaves the others.        *)
C9_UpdateSetsEveryInputField ==
    [][(request'.op = "update" /\ response'.status_code = 200) =>
          LET old == RowOf(store, request'.item_id[1])
              r == response'.rows[1]
          IN  \A c \in Columns :
                  r[c] = IF c \in DOMAIN request'.model
                         THEN request'.model[c] ELSE old[c]]_vars

(* C9 amended: a successful Update sets every field of the input other     *)
(* than the primary key that exists on the record to the input's value     *)
(* and leaves every other field, the primary key included, as it was; a    *)
(* field the record does not have changes nothing.  The returned record    *)
(* and a following Get-one both show this.                                 *)
C9_UpdateSetsNonKeyFields ==
    [][(request'.op = "update" /\ response'.status_code = 200) =>
          LET k == request'.item_id[1]
              old == RowOf(store, k)
              r == response'.rows[1]
          IN  /\ DOMAIN r = Columns
              /\ \A c \in Columns :
                    r[c] = IF c \in DOMAIN request'.model /\ c # "id"
                           THEN request'.model[c] ELSE old[c]
              /\ get_one_route(store', db_kind, k).response = Returned(<<r>>)]_vars

C9_Witness ==
    /\ request.op = "update"
    /\ response.status_code = 200
    /\ DOMAIN request.model = {"id", "name", "extra"}
    /\ request.model.id # request.item_id[1]
    /\ response.rows[1].val = 1
    /\ response.rows[1].name = request.model.name

(* C10: Delete-one on a key that is not stored fails with NotFound and     *)
(* changes nothing; on a stored key it removes the record, commits and     *)
(* returns the record as it was, and Get-one for that key fails with       *)
(* NotFound from then on until a Create stores the key again.              *)
C10_DeleteOne ==
    [][/\ (request'.op = "delete_one" /\ request'.item_id[1] \notin PKs(store)) =>
              /\ response' = NOT_FOUND
              /\ store' = store
       /\ (request'.op = "delete_one" /\ request'.item_id[1] \in PKs(store)) =>
              LET k == request'.item_id[1]
              IN  /\ response' = Returned(<<RowOf(store, k)>>)
                  /\ store' = store \ {RowOf(store, k)}
                  /\ Last(trace') = "commit"
                  /\ session'.state = "idle"
                  /\ get_one_route(store', db_kind, k).response = NOT_FOUND
       /\ \A k \in Keys :
              /\ (k \notin PKs(store) /\ k \in PKs(store')) => request'.op = "create"
              /\ (k \notin PKs(store) /\ request'.op = "get_one"
                    /\ request'.item_id = Some(k)) => response' = NOT_FOUND
      ]_vars

C10_Witness ==
    /\ request.op = "delete_one"
    /\ response.status_code = 200
    /\ response.rows[1] \notin store
    /\ store # {}

----
(* The paginations the validator can hand to List *)
ValidPaginations ==
    {[skip |-> sk, limit |-> lm] :
        sk \in 0..MaxPage, lm \in Optional(1..MaxPage)}

(* C11: Delete-all removes every record and commits, returns the empty     *)
(* collection (the result of List with skip 0 and no limit), and List      *)
(* returns an empty sequence afterwards for every valid skip and limit.    *)
C11_DeleteAll ==
    request.op = "delete_all" =>
        /\ store = {}
        /\ Has(trace, "commit")
        /\ session.state = "idle"
        /\ response = Returned(<<>>)
        /\ response = get_all_route(store, db_kind,
                                    [skip |-> 0, limit |-> None]).response
        /\ \A p \in ValidPaginations :
              get_all_route(store, db_kind, p).response.rows = <<>>

----
(* The capability of the session a call of the trace uses: reads go        *)
(* through db.query on a synchronous session and through db.execute on an  *)
(* asynchronous one.                                                       *)
Cap(call) == IF call \in {"query", "execute"} THEN "execute query" ELSE call
Caps(tr) == [i \in 1..Len(tr) |-> Cap(tr[i])]

OtherKind(kind) == IF kind = "sync" THEN "async" ELSE "sync"

(* The outcome of serving the request req from the store st on a session   *)
(* of the given kind; gen is the key the storage generates for a create.   *)
RouteOutcome(st, kind, req, gen) ==
    IF req.op = "get_all" THEN
        IF req.pagination = None
        THEN Outcome(st, <<>>, pagination(max_limit, req.skip, req.limit).exc,
                     NewSession)
        ELSE get_all_route(st, kind, req.pagination[1])
    ELSE IF req.op = "get_one" THEN get_one_route(st, kind, req.item_id[1])
    ELSE IF req.op = "create" THEN create_route(st, kind, req.model, gen)
    ELSE IF req.op = "update" THEN
        update_route(st, kind, req.item_id[1], req.model)
    ELSE IF req.op = "delete_one" THEN delete_one_route(st, kind, req.item_id[1])
    ELSE delete_all_route(st, kind)

(* The key the storage generated for the create that was just served *)
GenOf(st, req, resp) ==
    IF resp.status_code = 200 THEN resp.rows[1].id
    ELSE IF "id" \in DOMAIN req.model THEN req.model.id
    ELSE CHOOSE k \in Keys : k \notin PKs(st)

(* C12: for each of the six operations, from the same store and the same   *)
(* input, the synchronous and the asynchronous variant issue the same      *)
(* sequence of storage actions, leave the same store and hand the caller   *)
(* the same result.                                                        *)
C12_VariantsAgree ==
    [][request'.op # "none" =>
          LET gen == IF request'.op = "create"
                     THEN GenOf(store, request', response') ELSE 0
              o == RouteOutcome(store, OtherKind(db_kind), request', gen)
          IN  /\ store' = o.store
              /\ response' = o.response
              /\ Caps(trace') = Caps(o.trace)
              /\ session' = o.session]_vars

----
(* The storage failing at commit.  Besides the violations of the table's   *)
(* own constraints, which commit works out, a commit can raise for a       *)
(* reason the table does not show: IntegrityError from a constraint of     *)
(* another table, OperationalError from a lost connection.                 *)
CommitFaults == {"IntegrityError", "OperationalError"}

CreateFault ==
    /\ Idle
    /\ \E model \in CreateInputs, exc \in CommitFaults :
        Finish(Request("create", None, model, None, None, None),
               create_finish(model, 0,
                   commit_raising(store, add(NewSession, model), exc)))

UpdateFault ==
    /\ Idle
    /\ \E item_id \in PKs(store), model \in UpdateInputs, exc \in CommitFaults :
        LET g == get_one_route(store, db_kind, item_id)
        IN  Finish(Request("update", Some(item_id), model, None, None, None),
                   update_finish(g, item_id, model,
                       commit_raising(store,
                           update_pending(g, item_id, model).session, exc)))

DeleteOneFault ==
    /\ Idle
    /\ \E item_id \in PKs(store), exc \in CommitFaults :
        LET g == get_one_route(store, db_kind, item_id)
        IN  Finish(Request("delete_one", Some(item_id), <<>>, None, None, None),
                   delete_one_finish(g,
                       commit_raising(store,
                           delete(g.session, g.response.rows[1]), exc)))

DeleteAllFault ==
    /\ Idle
    /\ \E exc \in CommitFaults :
        Finish(Request("delete_all", None, <<>>, None, None, None),
               delete_all_finish(db_kind,
                   commit_raising(store, bulk_delete(NewSession), exc)))

NextFault ==
    \/ Next
    \/ CreateFault
    \/ UpdateFault
    \/ DeleteOneFault
    \/ DeleteAllFault

(* The router built with the default paginate = None *)
InitFault == Init /\ max_limit = None

SpecFault == InitFault /\ [][NextFault]_vars

WriteOps == {"create", "update", "delete_one", "delete_all"}

(* C13: in every write operation a failure raised during the commit,       *)
(* whatever its kind, is followed by a rollback of the request's session   *)
(* before the error reaches the caller; no write request ends in an error  *)
(* with its session still holding a write that was not rolled back.        *)
C13_RollbackOnAnyFailure ==
    (request.op \in WriteOps /\ Has(trace, "commit")
        /\ response.status_code # 200) =>
        /\ Last(trace) = "rollback"
        /\ session.state = "idle"
        /\ session.uow = <<>>

----
(* C14: a successful Create or Update performs commit and then refresh of  *)
(* the written record, in that order, before returning it; refresh never   *)
(* runs before the commit has succeeded nor after a failed commit, and the *)
(* record returned is the reloaded state.                                  *)
C14_CommitThenRefresh ==
    request.op \in {"create", "update"} =>
        LET n == Len(trace)
        IN  /\ response.status_code = 200 =>
                /\ n >= 2
                /\ trace[n - 1] = "commit"
                /\ trace[n] = "refresh"
                /\ session.state = "idle"
                /\ Len(response.rows) = 1
                /\ response.rows[1] \in store
                /\ response.rows[1] = refresh(store, response.rows[1].id)
            /\ \A i \in 1..n : trace[i] = "refresh" =>
                /\ i = n
                /\ i > 1
                /\ trace[i - 1] = "commit"
                /\ response.status_code = 200
            /\ \A i, j \in 1..n : (trace[i] = "commit" /\ trace[j] = "commit")
                                     => i = j

C14_Witness ==
    /\ request.op = "update"
    /\ response.status_code = 200
    /\ Has(trace, "setattr")
    /\ Last(trace) = "refresh"
    /\ response.rows[1].val = 1
    /\ "val" \in DOMAIN request.model

----
(* schema_factory on its own: any schema over a few field names, any       *)
(* primary-key name of two.                                                *)
FieldNames == {"id", "uid", "name", "val"}
Annotations == {"int", "str"}
FieldInfos == [annotation : Annotations, required : BOOLEAN]
Schemas ==
    {[name |-> "Schema", fields |-> fs] :
        fs \in UNION {[D -> FieldInfos] : D \in SUBSET FieldNames}}

InitSchema ==
    /\ store = {}
    /\ max_limit = None
    /\ db_kind = "sync"
    /\ Quiet
    /\ schema_cls \in Schemas
    /\ pk_field_name \in {"id", "uid"}
    /\ create_schema = None
    /\ procs = NoProcs

SchemaFactory ==
    /\ create_schema = None
    /\ create_schema' = Some(schema_factory(schema_cls, pk_field_name, "Create"))
    /\ UNCHANGED <<store, max_limit, db_kind, request, trace, response,
                   session, schema_cls, pk_field_name, procs>>

SpecSchema == InitSchema /\ [][SchemaFactory]_vars

(* C16: the derived CreateSchema has exactly the schema's fields without   *)
(* the primary-key name (all of them when the schema has no such field),   *)
(* each with its declared type, required and without default.              *)
C16_CreateSchemaFields ==
    create_schema # None =>
        LET made == create_schema[1].fields
            given == schema_cls.fields
        IN  /\ DOMAIN made = DOMAIN given \ {pk_field_name}
            /\ pk_field_name \notin DOMAIN given => DOMAIN made = DOMAIN given
            /\ \A f \in DOMAIN made :
                  /\ made[f].annotation = given[f].annotation
                  /\ made[f].required

C16_Witness ==
    /\ create_schema # None
    /\ pk_field_name \in DOMAIN schema_cls.fields
    /\ Cardinality(DOMAIN create_schema[1].fields) >= 2
    /\ \E f \in DOMAIN create_schema[1].fields : ~schema_cls.fields[f].required
    /\ \E f, g \in DOMAIN create_schema[1].fields :
          create_schema[1].fields[f].annotation
              # create_schema[1].fields[g].annotation

----
(* C17: Update never changes the primary key of a record: after a          *)
(* successful Update(item_id, input), also with another primary-key value  *)
(* in the input, the returned record has the key item_id, no record has    *)
(* appeared under the input's key, and the set of stored keys is as        *)
(* before.                                                                 *)
C17_UpdateKeepsKey ==
    [][(request'.op = "update" /\ response'.status_code = 200) =>
          LET k == request'.item_id[1]
              m == request'.model
          IN  /\ response'.rows[1].id = k
              /\ PKs(store') = PKs(store)
              /\ "id" \in DOMAIN m =>
                    (m.id \in PKs(store') => m.id \in PKs(store))
              /\ RowOf(store', k) = response'.rows[1]]_vars

C17_Witness ==
    /\ request.op = "update"
    /\ response.status_code = 200
    /\ "id" \in DOMAIN request.model
    /\ request.model.id # request.item_id[1]
    /\ request.model.id \notin PKs(store)
    /\ "name" \in DOMAIN request.model
    /\ response.rows[1].name = request.model.name

(* C18: List and Get-one leave the store unchanged and issue no commit,    *)
(* rollback, add or delete; a successful Delete-one or Update for key k    *)
(* leaves every record with another key unchanged; a successful Create     *)
(* adds exactly one record and leaves the existing ones unchanged.         *)
C18_Frame ==
    [][/\ request'.op \in {"get_all", "get_one"} =>
              /\ store' = store
              /\ \A i \in 1..Len(trace') :
                    trace'[i] \notin {"commit", "rollback", "add", "delete"}
              /\ session'.uow = <<>>
       /\ (request'.op \in {"delete_one", "update"}
              /\ response'.status_code = 200) =>
              LET k == request'.item_id[1]
              IN  {r \in store' : r.id # k} = {r \in store : r.id # k}
       /\ (request'.op = "create" /\ response'.status_code = 200) =>
              /\ store \subseteq store'
              /\ Cardinality(store') = Cardinality(store) + 1
              /\ store' \ store = {response'.rows[1]}
      ]_vars

C18_Witness ==
    /\ request.op = "delete_one"
    /\ response.status_code = 200
    /\ Cardinality(store) >= 1
    /\ \A r \in store : r.id # request.item_id[1]

----
(* Two requests on the same stored key, each on a session of its own,      *)
(* served step by step: the lookup of `await self._get_one()(item_id, db)` *)
(* is one step, the rest of the route (the assignments or db.delete, the   *)
(* commit and what follows it) another.  A request reads and writes the    *)
(* committed store of the moment of its step.                              *)
Proc(op, item_id, model) ==
    [op |-> op, item_id |-> item_id, model |-> model, pc |-> "start",
     fetched |-> Outcome({}, <<>>, Returned(<<>>), NewSession),
     trace |-> <<>>, response |-> Returned(<<>>), session |-> NewSession]

(* The stores over a set K of keys *)
StoresOver(K) ==
    {{[id |-> k, name |-> n[k], val |-> v[k]] : k \in K} :
        n \in {f \in [K -> Names] : \A a, b \in K : f[a] = f[b] => a = b},
        v \in [K -> Vals]}

Stores == UNION {StoresOver(K) : K \in SUBSET Keys}

(* The inputs of the concurrent Update *)
ConcInputs == UNION {Inputs(D) : D \in SUBSET {"name", "val"}}

InitConc ==
    /\ store \in Stores
    /\ max_limit = None
    /\ db_kind \in Kinds
    /\ Quiet
    /\ schema_cls = TableSchema
    /\ pk_field_name = "id"
    /\ create_schema = Some(schema_factory(TableSchema, "id", "Create"))
    /\ \E k \in PKs(store) :
          \/ \E model \in ConcInputs :
                procs = <<Proc("update", k, model), Proc("delete_one", k, <<>>)>>
          \/ procs = <<Proc("delete_one", k, <<>>), Proc("delete_one", k, <<>>)>>

Lookup ==
    \E p \in DOMAIN procs :
        /\ procs[p].pc = "start"
        /\ LET g == get_one_route(store, db_kind, procs[p].item_id)
           IN  procs' = [procs EXCEPT ![p] =
                  IF g.response.status_code # 200
                  THEN [@ EXCEPT !.pc = "done", !.trace = g.trace,
                                 !.response = g.response,
                                 !.session = g.session]
                  ELSE [@ EXCEPT !.pc = "fetched", !.fetched = g,
                                 !.trace = g.trace, !.session = g.session]]
        /\ UNCHANGED <<store, built, request, trace, response, session>>

Write ==
    \E p \in DOMAIN procs :
        /\ procs[p].pc = "fetched"
        /\ LET g == procs[p].fetched
               k == procs[p].item_id
               o == IF procs[p].op = "update"
                    THEN update_finish(g, k, procs[p].model,
                             commit(store,
                                 update_pending(g, k, procs[p].model).session, 0))
                    ELSE delete_one_finish(g,
                             commit(store,
                                 delete(g.session, g.response.rows[1]), 0))
           IN  /\ store' = o.store
               /\ procs' = [procs EXCEPT ![p] =
                      [@ EXCEPT !.pc = "done", !.trace = o.trace,
                                !.response = o.response,
                                !.session = o.session]]
        /\ UNCHANGED <<built, request, trace, response, session>>

NextConc ==
    \/ Lookup
    \/ Write

SpecConc == InitConc /\ [][NextConc]_vars

(* C19: under any interleaving of two requests on the same stored key      *)
(* (Update with Delete-one, or two Delete-one), a key that a Delete-one    *)
(* removed is not stored again (no Create runs here), at most one of two   *)
(* Delete-one requests reports the record as deleted, and every request    *)
(* ends with a record or with a 404 or 422 error.                          *)
C19_ConcurrentWriters ==
    [][/\ \A k \in Keys : k \notin PKs(store) => k \notin PKs(store')
       /\ ~(\E p, q \in DOMAIN procs' :
              /\ p # q
              /\ procs'[p].op = "delete_one" /\ procs'[q].op = "delete_one"
              /\ procs'[p].pc = "done" /\ procs'[q].pc = "done"
              /\ procs'[p].response.status_code = 200
              /\ procs'[q].response.status_code = 200)
       /\ \A p \in DOMAIN procs' :
              procs'[p].pc = "done" =>
                  procs'[p].response.status_code \in {200, 404, 422}
      ]_vars

====
